---- MODULE Spec2Model ----
(***************************************************************************)
(* Model of main.py: a Flask proxy with three handlers (search, card1,     *)
(* card2).  Each handler reads its query parameters, issues one GET to the *)
(* vendor API and reshapes the vendor's JSON payload.                      *)
(*                                                                         *)
(* JSON objects are functions from key strings to values, JSON lists are   *)
(* sequences.  A Python string that the code builds by concatenation is a  *)
(* sequence of tokens (a token is a piece of text the code never looks     *)
(* inside); a vendor string the code only copies is a single token.        *)
(***************************************************************************)
EXTENDS Integers, Sequences, FiniteSets, TLC

VARIABLES pc, handler, args, argsRead, url, calls, data, result, reads

vars == <<pc, handler, args, argsRead, url, calls, data, result, reads>>

---------------------------------------------------------------------------
(* Bounds of the model *)

\* longest inbound geoHash, in characters
MaxGeoLen == 7
\* longest '_embedded.events' list of a vendor search payload
MaxEvents == 2

---------------------------------------------------------------------------
(* Python values *)

\* {}
EmptyDict == <<>>

\* d[k] = v on a dict
Put(d, k, v) == (k :> v) @@ d

\* an optional part of a vendor payload
Opt(present, d) == IF present THEN d ELSE EmptyDict

\* the stop index of the slice geoHash[0:6]
GeoPrefix == 6

\* s[0:n]: at most the first n elements, the whole of a shorter s
PySlice(s, n) == SubSeq(s, 1, IF Len(s) < n THEN Len(s) ELSE n)

\* the decimal digits of a natural number, as str() prints them
RECURSIVE Digits(_)
Digits(n) == IF n < 10 THEN <<n>> ELSE Append(Digits(n \div 10), n % 10)

DigitChar(i) == <<"0", "1", "2", "3", "4", "5", "6", "7", "8", "9">>[i + 1]

\* str(n)
str(n) == [i \in 1..Len(Digits(n)) |-> DigitChar(Digits(n)[i])]

\* one subscript: v[k] on a dict, v[0] on a list (written "0")
CanStep(v, k) == IF k = "0" THEN Len(v) >= 1 ELSE k \in DOMAIN v
Step(v, k) == IF k = "0" THEN v[1] ELSE v[k]

\* a chain of subscripts data[p1][p2]...  It raises KeyError / IndexError
\* (ok = FALSE) at the first subscript that is missing.
RECURSIVE Sub(_, _)
Sub(v, path) ==
    IF path = <<>> THEN [ok |-> TRUE, v |-> v]
    ELSE IF CanStep(v, Head(path)) THEN Sub(Step(v, Head(path)), Tail(path))
    ELSE [ok |-> FALSE]

---------------------------------------------------------------------------
(* What a handler hands back to Flask *)

Pending == [kind |-> "pending"]
\* request.args[...] on a missing parameter: BadRequestKeyError, a 400
BadRequest == [kind |-> "badrequest"]
\* an uncaught exception, a 500
Fault == [kind |-> "fault"]
\* the function ends without a return statement
ReturnNone == [kind |-> "none"]
Return(body) == [kind |-> "return", body |-> body]

\* a JSON value tagged with its type, where a caller has to tell them apart
JNumber(n) == [type |-> "number", value |-> n]
JArray(s) == [type |-> "array", items |-> s]

---------------------------------------------------------------------------
(* Statements of a reshaping pass.  st = [fault, ret, reads]: whether an   *)
(* exception was raised, the output dict built so far, card1's local g and *)
(* the subscript chains evaluated on the vendor payload.                   *)

Start == [fault |-> FALSE, ret |-> EmptyDict, g |-> <<>>, reads |-> {}]

Raise(st, path) == [st EXCEPT !.fault = TRUE, !.reads = @ \cup {path}]

\* ret[key] = value
AssignConst(st, key, value) ==
    IF st.fault THEN st ELSE [st EXCEPT !.ret = Put(@, key, value)]

\* ret[key] = data[path...]
Assign(st, d, key, path) ==
    IF st.fault THEN st
    ELSE LET r == Sub(d, path) IN
         IF r.ok
         THEN [st EXCEPT !.ret = Put(@, key, r.v), !.reads = @ \cup {path}]
         ELSE Raise(st, path)

\* ret[key] = data[cpath...].get(k, ""): the field is made up when missing
AssignOrDefault(st, d, k, cpath, key, path) ==
    IF st.fault THEN st
    ELSE LET c == Sub(d, cpath) IN
         IF ~c.ok THEN Raise(st, cpath)
         ELSE IF k \in DOMAIN c.v THEN Assign(st, d, key, path)
         ELSE AssignConst(st, key, "")

\* if k in data[cpath...].keys(): ret[key] = data[path...]
AssignIfIn(st, d, k, cpath, key, path) ==
    IF st.fault THEN st
    ELSE LET c == Sub(d, cpath)
             st1 == IF cpath = <<>> THEN st
                    ELSE [st EXCEPT !.reads = @ \cup {cpath}] IN
         IF ~c.ok THEN Raise(st, cpath)
         ELSE IF k \in DOMAIN c.v THEN Assign(st1, d, key, path)
         ELSE st1

---------------------------------------------------------------------------
(* search: lines 26-55 *)

\* one pass of the loop body, lines 40-48: temp for one vendor event
search_event(event) ==
    LET s1 == Assign(Start, event, "id", <<"id">>)
        s2 == Assign(s1, event, "date", <<"dates", "start", "localDate">>)
        s3 == AssignIfIn(s2, event, "localTime", <<"dates", "start">>,
                         "time", <<"dates", "start", "localTime">>)
        s4 == Assign(s3, event, "icon", <<"images", "0", "url">>)
        s5 == Assign(s4, event, "event", <<"name">>)
        s6 == Assign(s5, event, "genre",
                     <<"classifications", "0", "segment", "name">>)
    IN  Assign(s6, event, "venue", <<"_embedded", "venues", "0", "name">>)

\* the chains read on one event, as chains on the payload
EventReads(rs) == {<<"_embedded", "events", "[i]">> \o p : p \in rs}

\* the loop with the body in try/except: continue
RECURSIVE search_loop_skipping(_, _)
search_loop_skipping(events, acc) ==
    IF events = <<>> THEN acc
    ELSE LET t == search_event(Head(events)) IN
         search_loop_skipping(Tail(events),
                     [fault |-> FALSE,
                      list |-> IF t.fault THEN acc.list
                               ELSE Append(acc.list, t.ret),
                      reads |-> acc.reads \cup EventReads(t.reads)])

\* for event in data2: ... temp_list.append(temp); an exception in the body
\* leaves the loop and the handler
RECURSIVE search_loop(_, _)
search_loop(events, acc) ==
    IF events = <<>> \/ acc.fault THEN acc
    ELSE LET t == search_event(Head(events)) IN
         search_loop(Tail(events),
                     [fault |-> t.fault,
                      list |-> IF t.fault THEN acc.list
                               ELSE Append(acc.list, t.ret),
                      reads |-> acc.reads \cup EventReads(t.reads)])

\* lines 30-55, after the vendor payload is parsed
search(d) ==
    LET size == Sub(d, <<"page", "size">>)
        r0 == {<<"page", "size">>} IN
    IF ~size.ok THEN [result |-> Fault, reads |-> r0]
    ELSE IF "_embedded" \in DOMAIN d
    THEN LET data2 == Sub(d, <<"_embedded", "events">>)
             r1 == r0 \cup {<<"_embedded", "events">>} IN
         IF ~data2.ok THEN [result |-> Fault, reads |-> r1]
         ELSE LET l == search_loop(data2.v,
                          [fault |-> FALSE, list |-> <<>>, reads |-> r1]) IN
              IF l.fault THEN [result |-> Fault, reads |-> l.reads]
              ELSE [result |-> Return(Put(EmptyDict, "events", JArray(l.list))),
                    reads |-> l.reads]
    ELSE [result |-> Return(Put(EmptyDict, "events", JNumber(0))),
          reads |-> r0]

---------------------------------------------------------------------------
(* card1: lines 68-116 *)

Classification0 == <<"classifications", "0">>

\* one of lines 89-98: if level in classifications[0] and its name is not
\* "Undefined": g += sep + name
GenreLevel(st, d, level, sep) ==
    IF st.fault THEN st
    ELSE LET c == Sub(d, Classification0)
             np == Classification0 \o <<level, "name">>
             n == Sub(d, np) IN
         IF ~c.ok THEN Raise(st, Classification0)
         ELSE IF level \notin DOMAIN c.v
         THEN [st EXCEPT !.reads = @ \cup {Classification0}]
         ELSE IF ~n.ok THEN Raise(st, np)
         ELSE [st EXCEPT !.reads = @ \cup {Classification0, np},
                         !.g = IF n.v = "Undefined" THEN @
                               ELSE @ \o sep \o <<n.v>>]

\* lines 88-99
Genre(st, d) ==
    LET g1 == GenreLevel(st, d, "segment", <<>>)
        g2 == GenreLevel(g1, d, "genre", <<" | ">>)
        g3 == GenreLevel(g2, d, "subGenre", <<" | ">>)
        g4 == GenreLevel(g3, d, "type", <<" | ">>)
        g5 == GenreLevel(g4, d, "subType", <<" | ">>)
    IN  AssignConst(g5, "genre", g5.g)

\* lines 101-103
PriceRanges(st, d) ==
    IF st.fault \/ "priceranges" \notin DOMAIN d THEN st
    ELSE LET pmin == <<"priceRanges", "0", "min">>
             pmax == <<"priceRanges", "0", "max">>
             pcur == <<"priceRanges", "0", "currency">>
             mn == Sub(d, pmin)
             mx == Sub(d, pmax)
             cur == Sub(d, pcur) IN
         IF ~mn.ok THEN Raise(st, pmin)
         ELSE IF ~mx.ok THEN Raise(Raise(st, pmin), pmax)
         ELSE IF ~cur.ok THEN Raise(Raise(Raise(st, pmin), pmax), pcur)
         ELSE [st EXCEPT !.reads = @ \cup {pmin, pmax, pcur},
                         !.ret = Put(@, "price_ranges",
                                     str(mn.v) \o <<"-">> \o str(mx.v)
                                       \o <<" ">> \o <<cur.v>>)]

\* lines 71-110: the detail dict
card1_detail(d) ==
    LET s1 == Assign(Start, d, "title", <<"name">>)
        s2 == Assign(s1, d, "date", <<"dates", "start", "localDate">>)
        s3 == AssignIfIn(s2, d, "localTime", <<"dates", "start">>,
                         "time", <<"dates", "start", "localTime">>)
        s4 == AssignIfIn(s3, d, "attractions", <<"_embedded">>,
                         "artist_team", <<"_embedded", "attractions", "0", "name">>)
        s5 == Assign(s4, d, "url", <<"url">>)
        s6 == Assign(s5, d, "venue", <<"_embedded", "venues", "0", "name">>)
        s7 == Genre(s6, d)
        s8 == PriceRanges(s7, d)
        s9 == Assign(s8, d, "ticket_status", <<"dates", "status", "code">>)
        s10 == Assign(s9, d, "buy_ticket_at", <<"url">>)
    IN  AssignIfIn(s10, d, "seatmap", <<>>, "seat_map", <<"seatmap", "staticUrl">>)

\* card1 without the test of line 70
card1_unchecked(d) ==
    LET st == card1_detail(d) IN
    IF st.fault THEN [result |-> Fault, reads |-> st.reads]
    ELSE [result |-> Return(Put(EmptyDict, "card1", <<st.ret>>)),
          reads |-> st.reads]

\* lines 68-116, after the vendor payload is parsed
card1(d) ==
    IF "name" \in DOMAIN d
    THEN LET st == card1_detail(d) IN
         IF st.fault THEN [result |-> Fault, reads |-> st.reads]
         ELSE [result |-> Return(Put(EmptyDict, "card1", <<st.ret>>)),
               reads |-> st.reads]
    ELSE [result |-> ReturnNone, reads |-> {}]

---------------------------------------------------------------------------
(* card2: lines 126-161 *)

Venue0 == <<"_embedded", "venues", "0">>

google_api == <<>>

\* lines 134-135 without the else branch
Logo_no_default(st, d) ==
    AssignIfIn(st, d, "images", Venue0, "logo", Venue0 \o <<"images", "0", "url">>)

\* lines 134-137
Logo(st, d) ==
    IF st.fault THEN st
    ELSE LET v == Sub(d, Venue0) IN
         IF ~v.ok THEN Raise(st, Venue0)
         ELSE IF "images" \in DOMAIN v.v
         THEN Assign([st EXCEPT !.reads = @ \cup {Venue0}], d, "logo",
                     Venue0 \o <<"images", "0", "url">>)
         ELSE AssignConst([st EXCEPT !.reads = @ \cup {Venue0}], "logo", "nologo")

\* lines 148-149
StateCode(st, d) ==
    IF st.fault THEN st
    ELSE LET v == Sub(d, Venue0) IN
         IF ~v.ok THEN Raise(st, Venue0)
         ELSE IF "state" \in DOMAIN v.v
         THEN AssignIfIn([st EXCEPT !.reads = @ \cup {Venue0}], d, "stateCode",
                         Venue0 \o <<"state">>,
                         "stateCode", Venue0 \o <<"state", "stateCode">>)
         ELSE [st EXCEPT !.reads = @ \cup {Venue0}]

\* line 160
Map(st) ==
    IF st.fault THEN st
    ELSE AssignConst(st, "map",
             <<"https://www.google.com/maps/search/?api=">> \o google_api
               \o <<"&query=">> \o <<st.ret["venue"]>>)

\* lines 127-160: the venue dict
card2_detail(d) ==
    LET s1 == Assign(Start, d, "venue", Venue0 \o <<"name">>)
        s2 == Logo(s1, d)
        s3 == AssignIfIn(s2, d, "address", Venue0,
                         "address", Venue0 \o <<"address", "line1">>)
        s4 == AssignIfIn(s3, d, "city", Venue0,
                         "city", Venue0 \o <<"city", "name">>)
        s5 == StateCode(s4, d)
        s6 == AssignIfIn(s5, d, "postalCode", Venue0,
                         "postal_code", Venue0 \o <<"postalCode">>)
        s7 == AssignIfIn(s6, d, "url", Venue0, "url", Venue0 \o <<"url">>)
    IN  Map(s7)

\* lines 126-161, after the vendor payload is parsed
card2(d) ==
    IF "_embedded" \in DOMAIN d
    THEN LET st == card2_detail(d) IN
         IF st.fault THEN [result |-> Fault, reads |-> st.reads]
         ELSE [result |-> Return(st.ret), reads |-> st.reads]
    ELSE [result |-> ReturnNone, reads |-> {}]

---------------------------------------------------------------------------
(* Outbound queries: lines 11-24, 60, 121 *)

key_ticketMaster == <<>>

api_url ==
    <<"https://app.ticketmaster.com/discovery/v2/events.json?apikey=">>
      \o key_ticketMaster \o <<"&">>

\* stri without line 22
search_url_untruncated(a) ==
    api_url \o <<"keyword=">> \o a["keyword"]
      \o <<"&segmentID=">> \o a["segmentID"]
      \o <<"&radius=">> \o a["distance"]
      \o <<"&unit=miles&geoPoint=">> \o a["geoHash"]

\* lines 18-24: stri, from the four query parameters (distance is a str
\* already, str(distance) leaves it as it is)
search_url(a) ==
    LET geoHash == PySlice(a["geoHash"], GeoPrefix) IN
    api_url \o <<"keyword=">> \o a["keyword"]
      \o <<"&segmentID=">> \o a["segmentID"]
      \o <<"&radius=">> \o a["distance"]
      \o <<"&unit=miles&geoPoint=">> \o geoHash

\* line 60
card1_url(a) ==
    <<"https://app.ticketmaster.com/discovery/v2/events/">> \o a["id"]
      \o <<"?apikey=">> \o key_ticketMaster \o <<"&">>

\* line 121
card2_url(a) ==
    <<"https://app.ticketmaster.com/discovery/v2/venues?apikey=">>
      \o key_ticketMaster \o <<"&keyword=">> \o a["keyword"]

\* the parameters a handler subscripts request.args with, in the order read
Required(h) ==
    CASE h = "search" -> <<"keyword", "distance", "segmentID", "geoHash">>
      [] h = "card1" -> <<"id">>
      [] h = "card2" -> <<"keyword">>

BuildUrl(h, a) ==
    CASE h = "search" -> search_url(a)
      [] h = "card1" -> card1_url(a)
      [] h = "card2" -> card2_url(a)

Handle(h, d) ==
    CASE h = "search" -> search(d)
      [] h = "card1" -> card1(d)
      [] h = "card2" -> card2(d)

---------------------------------------------------------------------------
(* Inputs: inbound requests and vendor payloads *)

\* d without the key at the end of path
RECURSIVE Without(_, _)
Without(d, path) ==
    IF Len(path) = 1 THEN [k \in DOMAIN d \ {path[1]} |-> d[k]]
    ELSE IF Head(path) = "0"
    THEN [d EXCEPT ![1] = Without(d[1], Tail(path))]
    ELSE [d EXCEPT ![Head(path)] = Without(d[Head(path)], Tail(path))]

\* d with v at path
RECURSIVE SetAt(_, _, _)
SetAt(d, path, v) ==
    IF Len(path) = 1 THEN Put(d, path[1], v)
    ELSE IF Head(path) = "0"
    THEN [d EXCEPT ![1] = SetAt(d[1], Tail(path), v)]
    ELSE [d EXCEPT ![Head(path)] = SetAt(d[Head(path)], Tail(path), v)]

GeoChars == {"9", "q"}

AllGeoHashes == UNION {[1..n -> GeoChars] : n \in 0..MaxGeoLen}

SomeGeoHashes ==
    {<<"9", "q", "5">>, <<"9", "q", "5", "c", "t", "r", "1", "8">>}

SearchRequests(hashes) ==
    {[handler |-> "search",
      args |-> Opt(k, "keyword" :> <<"rock">>)
                 @@ Opt(di, "distance" :> <<"10">>)
                 @@ Opt(sg, "segmentID" :> <<"KZFzniwnSyZfZ7v7nJ">>) @@ g] :
       k \in BOOLEAN, di \in BOOLEAN, sg \in BOOLEAN,
       g \in {EmptyDict} \cup {"geoHash" :> h : h \in hashes}}

Card1Requests ==
    {[handler |-> "card1", args |-> a] :
       a \in {EmptyDict, "id" :> <<"vvG1">>, "id" :> <<"vvG1">> @@ "x" :> <<"1">>}}

Card2Requests ==
    {[handler |-> "card2", args |-> a] :
       a \in {EmptyDict, "keyword" :> <<"Arena">>, "id" :> <<"vvG1">>}}

Requests == SearchRequests(SomeGeoHashes) \cup Card1Requests \cup Card2Requests

QueryRequests == SearchRequests(AllGeoHashes) \cup Card1Requests \cup Card2Requests

\* a vendor event of a search payload
Event(id, name, date) ==
    "id" :> id @@ "name" :> name
      @@ "dates" :> ("start" :> ("localDate" :> date @@ "localTime" :> "19:30:00"))
      @@ "images" :> << "url" :> "https://img/a.jpg", "url" :> "https://img/b.jpg" >>
      @@ "classifications" :> << "segment" :> ("name" :> "Music") >>
      @@ "_embedded" :> ("venues" :> << "name" :> "Arena" >>)

Event1 == Event("e1", "Concert", "2024-05-01")
Event2 == Event("e2", "Match", "2024-06-02")

\* the nested fields search reads on an event without a guard
Unguarded ==
    {<<"id">>, <<"name">>, <<"dates", "start", "localDate">>,
     <<"images", "0", "url">>, <<"classifications", "0", "segment", "name">>,
     <<"_embedded", "venues", "0", "name">>}

GoodEvents ==
    {Event1, Event2, Without(Event1, <<"dates", "start", "localTime">>),
     Without(Event2, <<"dates", "start", "localTime">>)}

BadEvents ==
    {Without(Event1, p) : p \in Unguarded}
      \cup {SetAt(Event1, <<"images">>, <<>>),
            Without(Event2, <<"classifications", "0", "segment">>),
            Without(Without(Event2, <<"dates", "start", "localTime">>), <<"images">>)}

Events == GoodEvents \cup BadEvents

EventLists == UNION {[1..n -> Events] : n \in 0..MaxEvents}

Pages == {EmptyDict, "page" :> EmptyDict, "page" :> ("size" :> 20)}

SearchPayloads ==
    {pg @@ em @@ "_links" :> "self" :
       pg \in Pages,
       em \in {EmptyDict, "_embedded" :> EmptyDict}
                \cup {"_embedded" :> ("events" :> es) : es \in EventLists}}

\* a few search payloads, for the specification that varies the request
FewSearchPayloads ==
    {"page" :> ("size" :> 20),
     "page" :> ("size" :> 20) @@ "_embedded" :> ("events" :> <<Event1>>)}
\* the five classification levels of card1, in the order of lines 89-98
Levels == <<"segment", "genre", "subGenre", "type", "subType">>

LevelName(l) ==
    CASE l = "segment" -> "Music" [] l = "genre" -> "Rock"
      [] l = "subGenre" -> "Pop" [] l = "type" -> "Group"
      [] l = "subType" -> "Band"

LevelCases == {"absent", "undefined", "named"}

LevelPart(l, c) ==
    IF c = "absent" THEN EmptyDict
    ELSE l :> ("name" :> (IF c = "undefined" THEN "Undefined" ELSE LevelName(l)))

Classifications ==
    {LevelPart("segment", c[1]) @@ LevelPart("genre", c[2])
       @@ LevelPart("subGenre", c[3]) @@ LevelPart("type", c[4])
       @@ LevelPart("subType", c[5]) : c \in [1..5 -> LevelCases]}

Price1 == "min" :> 20 @@ "max" :> 150 @@ "currency" :> "USD"
Price2 == "min" :> 5 @@ "max" :> 1000 @@ "currency" :> "EUR"

PriceParts ==
    {EmptyDict, "priceranges" :> <<Price1>>, "priceRanges" :> <<Price1>>,
     "priceRanges" :> <<Price2, Price1>>,
     "priceranges" :> <<Price1>> @@ "priceRanges" :> <<Price1>>,
     "priceranges" :> <<Price2>> @@ "priceRanges" :> <<Price2, Price1>>}

Card1Event(cl, time, attractions, price, seatmap) ==
    "name" :> "Concert" @@ "url" :> "https://tm/e1"
      @@ "dates" :> ("start" :> ("localDate" :> "2024-05-01"
                                   @@ Opt(time, "localTime" :> "19:30:00"))
                       @@ "status" :> ("code" :> "onsale"))
      @@ "_embedded" :> ("venues" :> << "name" :> "Arena", "name" :> "Hall" >>
                           @@ Opt(attractions, "attractions" :>
                                    << "name" :> "Band A", "name" :> "Band B" >>))
      @@ "classifications" :> <<cl>>
      @@ price
      @@ Opt(seatmap, "seatmap" :> ("staticUrl" :> "https://maps/seat.png"))

Card1Good ==
    {Card1Event(cl, t, a, p, sm) :
       cl \in Classifications, t \in BOOLEAN, a \in BOOLEAN,
       p \in PriceParts, sm \in BOOLEAN}

Card1Full ==
    Card1Event("segment" :> ("name" :> "Music") @@ "genre" :> ("name" :> "Rock"),
               TRUE, TRUE, "priceRanges" :> <<Price1>>, TRUE)

\* what card1 reads without a guard, and what it reads once a guard passed
Card1Needed ==
    {<<"dates">>, <<"dates", "start">>, <<"dates", "start", "localDate">>,
     <<"_embedded">>, <<"url">>, <<"_embedded", "venues">>,
     <<"_embedded", "venues", "0", "name">>, <<"classifications">>,
     <<"classifications", "0", "segment", "name">>,
     <<"classifications", "0", "genre", "name">>,
     <<"dates", "status">>, <<"dates", "status", "code">>,
     <<"_embedded", "attractions", "0", "name">>,
     <<"seatmap", "staticUrl">>}

Card1Bad ==
    {Without(Card1Full, p) : p \in Card1Needed}
      \cup {SetAt(Card1Full, <<"classifications">>, <<>>),
            SetAt(Card1Full, <<"_embedded", "venues">>, <<>>),
            SetAt(Card1Full, <<"_embedded", "attractions">>, <<>>),
            SetAt(Card1Full, <<"priceranges">>, <<>>),
            SetAt(Card1Full, <<"name">>, "Concert") @@ "priceranges" :> <<Price1>>}

\* payloads without 'name': an error body, and event bodies stripped of it
Card1NoName ==
    {"fault" :> ("faultstring" :> "Invalid ApiKey"), EmptyDict,
     Without(Card1Full, <<"name">>)}
      \cup {Without(Without(Card1Full, <<"name">>), p) : p \in Card1Needed}

Card1Payloads == Card1Good \cup Card1Bad \cup Card1NoName

FewCard1Payloads == {Card1Full, EmptyDict}

\* the first venue of a card2 payload
ImageParts ==
    {EmptyDict, "images" :> << "url" :> "https://img/v.png", "url" :> "https://img/w.png" >>,
     "images" :> <<>>, "images" :> << "ratio" :> "16_9" >>}

AddressParts == {EmptyDict, "address" :> ("line1" :> "1 Main St"), "address" :> EmptyDict}

CityParts == {EmptyDict, "city" :> ("name" :> "Los Angeles")}

StateParts ==
    {EmptyDict, "state" :> ("name" :> "California" @@ "stateCode" :> "CA"),
     "state" :> ("name" :> "California")}

Venues ==
    {nm @@ im @@ ad @@ ci @@ sta @@ Opt(pc1, "postalCode" :> "90015")
       @@ Opt(u, "url" :> "https://tm/venue/1") :
       nm \in {EmptyDict, "name" :> "Arena", "name" :> "Hall"},
       im \in ImageParts, ad \in AddressParts, ci \in CityParts,
       sta \in StateParts, pc1 \in BOOLEAN, u \in BOOLEAN}

Card2Payloads ==
    {EmptyDict, "page" :> ("size" :> 20), "_embedded" :> EmptyDict,
     "_embedded" :> ("venues" :> <<>>)}
      \cup {"_embedded" :> ("venues" :> <<v, "name" :> "Other" @@ "images" :> <<>> >>) :
              v \in Venues}

FewCard2Payloads == {EmptyDict, "_embedded" :> ("venues" :> << "name" :> "Arena" >>)}

Payloads(h) ==
    CASE h = "search" -> SearchPayloads
      [] h = "card1" -> Card1Payloads
      [] h = "card2" -> Card2Payloads

FewPayloads(h) ==
    CASE h = "search" -> FewSearchPayloads
      [] h = "card1" -> FewCard1Payloads
      [] h = "card2" -> FewCard2Payloads

---------------------------------------------------------------------------
(* The request cycle *)

\* pc: "idle" (no request), "args" (view function entered), "get" (query
\* built), "reshape" (payload parsed), and the three ends of a request:
\* "rejected" (a parameter is missing), "failed" (the vendor call raised),
\* "done" (the view function returned or raised while reshaping)
Init ==
    /\ pc = "idle"
    /\ handler = "none"
    /\ args = EmptyDict
    /\ argsRead = {}
    /\ url = <<>>
    /\ calls = 0
    /\ data = EmptyDict
    /\ result = Pending
    /\ reads = {}

\* Flask routes an inbound GET to its view function (lines 16, 57, 118)
Dispatch(inbound) ==
    /\ pc = "idle"
    /\ pc' = "args"
    /\ \E r \in inbound :
         /\ handler' = r.handler
         /\ args' = r.args
    /\ UNCHANGED <<argsRead, url, calls, data, result, reads>>

\* the parameters are subscripted in order; the first one missing raises
\* BadRequestKeyError and ends the request; otherwise the query is built
ReadArgs ==
    /\ pc = "args"
    /\ LET req == Required(handler)
           missing == {i \in 1..Len(req) : req[i] \notin DOMAIN args} IN
       IF missing # {}
       THEN /\ argsRead' = {req[i] : i \in {j \in 1..Len(req) :
                                               \A m \in missing : j < m}}
            /\ result' = BadRequest
            /\ pc' = "rejected"
            /\ url' = url
       ELSE /\ argsRead' = {req[i] : i \in 1..Len(req)}
            /\ url' = BuildUrl(handler, args)
            /\ pc' = "get"
            /\ result' = result
    /\ UNCHANGED <<handler, args, calls, data, reads>>

\* requests.get(...) and response.json() give a parsed payload, one of
\* those the vendor may answer with
RequestsGet(answers) ==
    /\ pc = "get"
    /\ calls' = calls + 1
    /\ \E d \in answers : data' = d
    /\ pc' = "reshape"
    /\ UNCHANGED <<handler, args, argsRead, url, result, reads>>

\* a failed vendor call that is tried again
RequestsGetRetries ==
    /\ pc = "get"
    /\ calls' = calls + 1
    /\ UNCHANGED <<pc, handler, args, argsRead, url, data, result, reads>>

\* requests.get(...) or response.json() raises
RequestsGetFails ==
    /\ pc = "get"
    /\ calls' = calls + 1
    /\ result' = Fault
    /\ pc' = "failed"
    /\ UNCHANGED <<handler, args, argsRead, url, data, reads>>

\* the rest of the view function, to its return or its exception
\* (json.dumps / json.loads of lines 27-28 build values nothing reads)
Reshape ==
    /\ pc = "reshape"
    /\ LET r == Handle(handler, data) IN
       /\ result' = r.result
       /\ reads' = r.reads
    /\ pc' = "done"
    /\ UNCHANGED <<handler, args, argsRead, url, calls, data>>

\* Flask turns the outcome into a response; the worker takes the next
\* request with nothing kept from this one
Respond ==
    /\ pc \in {"rejected", "failed", "done"}
    /\ pc' = "idle"
    /\ handler' = "none"
    /\ args' = EmptyDict
    /\ argsRead' = {}
    /\ url' = <<>>
    /\ calls' = 0
    /\ data' = EmptyDict
    /\ result' = Pending
    /\ reads' = {}

Next ==
    \/ Dispatch(Requests)
    \/ ReadArgs
    \/ RequestsGet(Payloads(handler))
    \/ RequestsGetFails
    \/ Reshape
    \/ Respond

Spec == Init /\ [][Next]_vars

\* the same cycle over every inbound geoHash and a few payloads
NextQuery ==
    \/ Dispatch(QueryRequests)
    \/ ReadArgs
    \/ RequestsGet(FewPayloads(handler))
    \/ RequestsGetFails
    \/ Reshape
    \/ Respond

SpecQuery == Init /\ [][NextQuery]_vars

---------------------------------------------------------------------------
(* Properties *)

\* the view function ran its reshaping pass on a parsed payload
Reshaped(h) == pc = "done" /\ handler = h

Has(d, path) == Sub(d, path).ok

\* names joined by " | "
RECURSIVE JoinPipe(_)
JoinPipe(names) ==
    IF names = <<>> THEN <<>>
    ELSE IF Len(names) = 1 THEN names
    ELSE <<Head(names), " | ">> \o JoinPipe(Tail(names))

\* "{min}-{max} {currency}" of a price-range entry
PriceText(e) == str(e["min"]) \o <<"-">> \o str(e["max"]) \o <<" ", e["currency"]>>

\* C1: for every vendor payload without an '_embedded' key, whatever else
\* it holds (a payload without 'page' included), search returns exactly
\* {events: 0}, events being the number 0 and not a list, without a fault.
C1_NoEmbeddedGivesZero ==
    (Reshaped("search") /\ "_embedded" \notin DOMAIN data)
      => result = Return("events" :> JNumber(0))

\* the events list of a search payload, <<>> when there is none
VendorEvents ==
    IF Has(data, <<"_embedded", "events">>) THEN data["_embedded"]["events"]
    ELSE <<>>

WellFormedEvent(e) ==
    /\ Has(e, <<"id">>) /\ Has(e, <<"name">>)
    /\ Has(e, <<"dates", "start", "localDate">>)
    /\ Has(e, <<"images", "0", "url">>)
    /\ Has(e, <<"classifications", "0", "segment", "name">>)
    /\ Has(e, <<"_embedded", "venues", "0", "name">>)

\* C2: for every search payload whose '_embedded.events' holds n >= 1
\* well-formed events, search returns a list of exactly n summaries in the
\* vendor's order, the i-th with the i-th event's id, start date and name.
C2_SummariesMatchEvents ==
    (/\ Reshaped("search")
     /\ Len(VendorEvents) >= 1
     /\ \A i \in 1..Len(VendorEvents) : WellFormedEvent(VendorEvents[i]))
      => /\ result.kind = "return"
         /\ result.body["events"].type = "array"
         /\ Len(result.body["events"].items) = Len(VendorEvents)
         /\ \A i \in 1..Len(VendorEvents) :
              LET s == result.body["events"].items[i]
                  e == VendorEvents[i] IN
              /\ s["id"] = e["id"]
              /\ s["date"] = e["dates"]["start"]["localDate"]
              /\ s["event"] = e["name"]

\* the names of the levels of classifications[0] that are present and not
\* "Undefined", in the fixed order
KeptLevelNames(c) ==
    LET kept == SelectSeq(Levels,
                    LAMBDA l : l \in DOMAIN c /\ c[l]["name"] # "Undefined") IN
    [i \in 1..Len(kept) |-> c[kept[i]]["name"]]

\* C3: for every combination of present / absent / "Undefined" levels of
\* classifications[0], card1's genre is the names of the levels that are
\* present and not "Undefined", in order, joined by " | ": no separator at
\* the start or the end, no two separators next to each other.
C3_GenreIsJoin ==
    (Reshaped("card1") /\ result.kind = "return")
      => LET g == result.body["card1"][1]["genre"] IN
         /\ g = JoinPipe(KeptLevelNames(data["classifications"][1]))
         /\ (g # <<>> => g[1] # " | " /\ g[Len(g)] # " | ")
         /\ \A i \in 1..(Len(g) - 1) : ~(g[i] = " | " /\ g[i + 1] = " | ")

\* C4: for every card1 payload with 'name' and a 'priceRanges' list whose
\* first entry is {min, max, currency}, the output has a price-range field
\* equal to "{min}-{max} {currency}" (20, 150, "USD" gives "20-150 USD").
C4_PriceRangeFormatted ==
    (/\ Reshaped("card1")
     /\ result.kind = "return"
     /\ Has(data, <<"priceRanges", "0", "min">>)
     /\ Has(data, <<"priceRanges", "0", "max">>)
     /\ Has(data, <<"priceRanges", "0", "currency">>))
      => LET detail == result.body["card1"][1]
             e == data["priceRanges"][1] IN
         /\ "price_ranges" \in DOMAIN detail
         /\ detail["price_ranges"] = PriceText(e)
         /\ (e = Price1 =>
               detail["price_ranges"]
                 = <<"2", "0", "-", "1", "5", "0", " ", "USD">>)

\* the geoPoint value of an outbound search query: what follows the last
\* "geoPoint=" of the query string
GeoPointOf(u) ==
    LET marks == {i \in 1..Len(u) : u[i] = "&unit=miles&geoPoint="}
        last == CHOOSE i \in marks : \A j \in marks : j <= i IN
    SubSeq(u, last + 1, Len(u))

IsPrefix(p, s) == Len(p) <= Len(s) /\ \A i \in 1..Len(p) : p[i] = s[i]

QueryBuilt == pc \in {"get", "reshape", "failed", "done"}

\* C5: the geoPoint of the outbound search query is the first 6 characters
\* of the inbound geoHash when that has 6 or more, and the whole geoHash
\* when it has fewer (the empty one included); it is never longer than 6
\* and always a prefix of the input.
C5_GeoHashTruncated ==
    (QueryBuilt /\ handler = "search")
      => LET g == args["geoHash"]
             p == GeoPointOf(url) IN
         /\ Len(p) <= 6
         /\ IsPrefix(p, g)
         /\ (Len(g) >= 6 => Len(p) = 6)
         /\ (Len(g) < 6 => p = g)

C5_Witness ==
    /\ pc = "reshape" /\ handler = "search"
    /\ Len(args["geoHash"]) = 7
    /\ GeoPointOf(url) = <<"q", "9", "q", "9", "q", "9">>

\* the first venue of a card2 payload that card2 returned a body for
FirstVenue == data["_embedded"]["venues"][1]

MapTemplate == <<"https://www.google.com/maps/search/?api=", "&query=">>

\* C6: for every card2 payload with an embedded-venues collection the
\* output has 'logo' and 'map': logo is the first image URL of the first
\* venue when that venue has 'images', the literal "nologo" exactly when it
\* has none; map is the map-search template ending in the output's venue.
C6_LogoAndMap ==
    (Reshaped("card2") /\ "_embedded" \in DOMAIN data)
      => /\ result.kind \in {"return", "fault"}
         /\ result.kind = "return" =>
              LET out == result.body IN
              /\ {"logo", "map", "venue"} \subseteq DOMAIN out
              /\ "images" \in DOMAIN FirstVenue
                   => out["logo"] = FirstVenue["images"][1]["url"]
              /\ "images" \notin DOMAIN FirstVenue => out["logo"] = "nologo"
              /\ out["logo"] = "nologo" <=> "images" \notin DOMAIN FirstVenue
              /\ out["map"] = MapTemplate \o <<out["venue"]>>
              /\ out["venue"] = FirstVenue["name"]

C6_Witness ==
    /\ Reshaped("card2") /\ result.kind = "return"
    /\ "images" \notin DOMAIN FirstVenue
    /\ result.body["logo"] = "nologo"
    /\ result.body["map"] = MapTemplate \o <<"Hall">>

\* the optional output fields of the three handlers
SearchOptional == {"time"}
Card1Optional == {"time", "artist_team", "price_ranges", "seat_map"}
Card2Optional == {"address", "city", "stateCode", "postal_code", "url"}

\* C7 for one summary of search and the vendor event it was made from
SummaryCopied(s, e) ==
    /\ DOMAIN s \ SearchOptional = {"id", "date", "icon", "event", "genre", "venue"}
    /\ "time" \in DOMAIN s =>
         /\ Has(e, <<"dates", "start", "localTime">>)
         /\ s["time"] = e["dates"]["start"]["localTime"]

\* C7 for the detail of card1
DetailCopied(out, d) ==
    /\ DOMAIN out \ Card1Optional
         = {"title", "date", "url", "venue", "genre", "ticket_status", "buy_ticket_at"}
    /\ "time" \in DOMAIN out =>
         /\ Has(d, <<"dates", "start", "localTime">>)
         /\ out["time"] = d["dates"]["start"]["localTime"]
    /\ "artist_team" \in DOMAIN out =>
         /\ Has(d, <<"_embedded", "attractions", "0", "name">>)
         /\ out["artist_team"] = d["_embedded"]["attractions"][1]["name"]
    /\ "price_ranges" \in DOMAIN out =>
         /\ Has(d, <<"priceRanges", "0">>)
         /\ out["price_ranges"] = PriceText(d["priceRanges"][1])
    /\ "seat_map" \in DOMAIN out =>
         /\ Has(d, <<"seatmap", "staticUrl">>)
         /\ out["seat_map"] = d["seatmap"]["staticUrl"]

\* C7 for the venue of card2
VenueCopied(out, v) ==
    /\ DOMAIN out \ Card2Optional = {"venue", "logo", "map"}
    /\ "address" \in DOMAIN out =>
         Has(v, <<"address", "line1">>) /\ out["address"] = v["address"]["line1"]
    /\ "city" \in DOMAIN out =>
         Has(v, <<"city", "name">>) /\ out["city"] = v["city"]["name"]
    /\ "stateCode" \in DOMAIN out =>
         Has(v, <<"state", "stateCode">>)
           /\ out["stateCode"] = v["state"]["stateCode"]
    /\ "postal_code" \in DOMAIN out =>
         Has(v, <<"postalCode">>) /\ out["postal_code"] = v["postalCode"]
    /\ "url" \in DOMAIN out => Has(v, <<"url">>) /\ out["url"] = v["url"]

\* C7: in every response of the three handlers an optional output field
\* (search time; card1 time, artist_team, price_ranges, seat_map; card2
\* address, city, stateCode, postal_code, url) appears only if the vendor
\* field it comes from exists, with the vendor's value; nothing is made up
\* for a field the vendor omits, except card2's logo and map.
C7_OptionalFieldsCopied ==
    (pc = "done" /\ result.kind = "return")
      => /\ (handler = "search" /\ result.body["events"].type = "array") =>
              \A i \in 1..Len(result.body["events"].items) :
                SummaryCopied(result.body["events"].items[i], VendorEvents[i])
         /\ handler = "card1" => DetailCopied(result.body["card1"][1], data)
         /\ handler = "card2" => VenueCopied(result.body, FirstVenue)

C7_Witness ==
    /\ Reshaped("card1") /\ result.kind = "return"
    /\ DOMAIN result.body["card1"][1] \cap Card1Optional = {"time", "seat_map"}
    /\ "priceRanges" \in DOMAIN data

\* every field card1 subscripts once the 'name' test passed is there
Card1Complete(d) ==
    /\ Has(d, <<"dates", "start", "localDate">>)
    /\ Has(d, <<"_embedded", "venues", "0", "name">>)
    /\ Has(d, <<"url">>)
    /\ Has(d, <<"classifications", "0">>)
    /\ \A i \in 1..Len(Levels) :
         Has(d, <<"classifications", "0", Levels[i]>>)
           => Has(d, <<"classifications", "0", Levels[i], "name">>)
    /\ Has(d, <<"dates", "status", "code">>)
    /\ Has(d, <<"_embedded", "attractions">>)
         => Has(d, <<"_embedded", "attractions", "0", "name">>)
    /\ Has(d, <<"priceranges">>) =>
         /\ Has(d, <<"priceRanges", "0", "min">>)
         /\ Has(d, <<"priceRanges", "0", "max">>)
         /\ Has(d, <<"priceRanges", "0", "currency">>)
    /\ Has(d, <<"seatmap">>) => Has(d, <<"seatmap", "staticUrl">>)

IsCard1Body ==
    /\ result.kind = "return"
    /\ DOMAIN result.body = {"card1"}
    /\ Len(result.body["card1"]) = 1

\* what card1 does on a payload without 'name'
NoNameGivesNone ==
    "name" \notin DOMAIN data => result = ReturnNone /\ reads = {}

\* C8, as claimed: card1 returns {card1: [detail]}, a list of exactly one
\* element, if and only if the payload has 'name'; without 'name' it reads
\* no other vendor field, raises nothing and returns no value.
C8_BodyIffName ==
    Reshaped("card1")
      => /\ IsCard1Body <=> "name" \in DOMAIN data
         /\ NoNameGivesNone

\* C8, amended: card1 returns {card1: [detail]}, a list of exactly one
\* element, only if the payload has 'name'; with 'name' it returns that
\* body when every field it subscripts is present and faults otherwise;
\* without 'name' it reads no other vendor field, raises nothing and
\* returns no value.
C8_BodyOnlyIfName ==
    Reshaped("card1")
      => /\ result.kind = "return" => IsCard1Body /\ "name" \in DOMAIN data
         /\ "name" \in DOMAIN data =>
              IF Card1Complete(data) THEN IsCard1Body ELSE result = Fault
         /\ NoNameGivesNone

C8_Witness ==
    /\ Reshaped("card1")
    /\ "name" \in DOMAIN data /\ Card1Complete(data)
    /\ IsCard1Body
    /\ "artist_team" \in DOMAIN result.body["card1"][1]

\* the required parameters of the running handler
RequiredSet == {Required(handler)[i] : i \in 1..Len(Required(handler))}

\* C9: a request missing a required query parameter is rejected with no
\* outbound call; a request with all of them issues exactly one GET, after
\* every parameter is read and before any response or fault of the
\* reshaping; no handler issues a second call.
C9_OneCallAfterArgs ==
    /\ calls \in {0, 1}
    /\ pc \in {"idle", "args", "get", "rejected"} => calls = 0
    /\ pc \in {"reshape", "failed", "done"} => calls = 1
    /\ pc = "rejected" <=> result = BadRequest
    /\ pc \in {"get", "reshape", "failed", "done", "rejected"} =>
         (pc = "rejected" <=> ~(RequiredSet \subseteq DOMAIN args))
    /\ calls = 1 => argsRead = RequiredSet /\ RequiredSet \subseteq DOMAIN args
    /\ result.kind \in {"return", "none", "fault"} => calls = 1
    /\ pc \in {"idle", "args", "get", "reshape"} => result = Pending

C9_Witness ==
    /\ pc = "rejected" /\ handler = "search"
    /\ argsRead = {"keyword", "distance"}
    /\ "geoHash" \in DOMAIN args
    /\ calls = 0

\* C10: search is all-or-nothing over the vendor's events: one event that
\* lacks a field read without a guard (images[0].url,
\* classifications[0].segment.name, _embedded.venues[0].name,
\* dates.start.localDate, id, name) faults the whole request, wherever it
\* stands and however many others are well-formed, and no partial list is
\* returned; an event lacking only dates.start.localTime causes no fault.
C10_AllOrNothing ==
    (Reshaped("search") /\ Has(data, <<"_embedded", "events">>))
      => /\ (\E i \in 1..Len(VendorEvents) : ~WellFormedEvent(VendorEvents[i]))
              => result = Fault
         /\ result.kind = "return" =>
              Len(result.body["events"].items) = Len(VendorEvents)
         /\ (/\ Has(data, <<"page", "size">>)
             /\ \A i \in 1..Len(VendorEvents) : WellFormedEvent(VendorEvents[i]))
              => result.kind = "return"

C10_Witness ==
    /\ Reshaped("search") /\ Has(data, <<"page", "size">>)
    /\ Len(VendorEvents) = 2
    /\ WellFormedEvent(VendorEvents[1])
    /\ ~Has(VendorEvents[1], <<"dates", "start", "localTime">>)
    /\ ~Has(VendorEvents[2], <<"images", "0", "url">>)
    /\ result = Fault

====
